---- MODULE Spec2Model ----
(***************************************************************************)
(* Model of read_gadget_snapshot (scripts/download_snapshot.py), the       *)
(* decoder of Gadget-2 snapshot files.  The byte stream is modelled by its *)
(* offsets: the 37 words of the header record, the declared length of each *)
(* record that follows, and the number of bytes the stream holds.  A block *)
(* the decoder returns is described by the offset of its first byte, the   *)
(* number of elements np.frombuffer made of the bytes read, the element    *)
(* width and the shape.                                                    *)
(***************************************************************************)
EXTENDS Integers, Sequences, FiniteSets, TLC

\* ---------------------------------------------------------------- bounds
MaxTotal == 2        \* the particle counts of a header sum to at most this
MaxHdrVariant == 1   \* fillings of the scalar header words: 0..MaxHdrVariant
MaxCut == 72         \* truncated streams end up to this many bytes after the header record

\* ------------------------------------------------------- program constants
NTypes == 6          \* particle types: range(6), the 6I / 6d header arrays
NWords == 37         \* values unpacked by gadget_header_fmt
HeaderFmtSize == 196 \* struct.calcsize(gadget_header_fmt)
HeaderRecord == 256  \* length of the header record
MarkerSize == 4      \* a record's leading / trailing length marker
NarrowSize == 4      \* np.float32 / np.uint32 .itemsize
WideSize == 8        \* np.float64 / np.uint64 .itemsize
NKinds == 4          \* len(blocks_to_read)

Types == 1..NTypes
Kinds == 0..(NKinds - 1)

VARIABLES
    \* the call's arguments
    blocks_to_read,  \* (read_pos, read_vel, read_id, read_mass)
    single_type_arg, \* single_type as passed
    lgadget,
    \* the stream
    fileNpart,       \* the particle counts the file was written for
    fileMass,        \* its per-type masses (0: masses are stored per particle)
    fileFill,        \* selects the values of its other header words
    streamLen,       \* bytes the stream holds; -1: the whole file is there
    fileL,           \* declared lengths of the records read so far, in file order
    \* the decoder's frame
    pc, pos, header, ret, single_type, mass_npart, i, retval, err,
    \* history of the decode
    marks            \* one entry per leading marker read

vars == <<blocks_to_read, single_type_arg, lgadget, fileNpart, fileMass,
          fileFill, streamLen, fileL,
          pc, pos, header, ret, single_type, mass_npart, i, retval, err,
          marks>>

\* ------------------------------------------------------------ pure helpers
Min(a, b) == IF a < b THEN a ELSE b

RECURSIVE sum(_)
\* Python's sum() of a list
sum(s) == IF Len(s) = 0 THEN 0 ELSE Head(s) + sum(Tail(s))

\* Python's any() of a tuple of bools
any(s) == \E k \in 1..Len(s) : s[k]

\* Python slice s[a:b] (0-based, b exclusive)
Slice(s, a, b) == SubSeq(s, a + 1, b)

\* bstream.seek(n, 1): io.BytesIO moves the position, also past the end
Seek(p, n) == p + n

\* number of bytes bstream.read(n) returns at offset p of a stream of len bytes
ReadLen(p, n, len) ==
    IF len < 0 THEN n
    ELSE IF p >= len THEN 0
    ELSE Min(n, len - p)

\* ------------------------------------------------------------- the header
\* mutant: the remapping the other way round (entropy flag cleared, the
\* high words taken from the cooling flag, the cooling flag cleared)
LgadgetRemap_Cooling(h) ==
    LET h1 == [h EXCEPT ![37] = 0]
        h2 == [h1 EXCEPT ![32] = h1[23]]
    IN  [h2 EXCEPT ![23] = 0]

\* lines 64-67: the l-gadget reinterpretation of the unpacked list h
\* (h[30] = 0; h[31] = h[18]; h[18] = 0, h 0-based)
LgadgetRemap(h) ==
    LET h1 == [h EXCEPT ![31] = 0]
        h2 == [h1 EXCEPT ![32] = h1[19]]
    IN  [h2 EXCEPT ![19] = 0]

\* lines 70-72: gadget_header._make((h[0:6],) + (h[6:12],) + h[12:16] +
\* (h[16:22],) + h[22:30] + (h[30:36],) + h[36:]); a namedtuple is a tuple
MakeHeader(h) ==
    <<Slice(h, 0, 6)>> \o <<Slice(h, 6, 12)>> \o Slice(h, 12, 16) \o
    <<Slice(h, 16, 22)>> \o Slice(h, 22, 30) \o <<Slice(h, 30, 36)>> \o
    Slice(h, 36, NWords)

\* the fields of gadget_header, by position in the namedtuple (lines 53-56)
F_npart == 1
F_mass == 2
F_npartTotal == 7
F_flag_cooling == 8
F_NallHW == 16
F_flag_entr_ics == 17
NFields == 17

\* mutant: the per-type masses ignored
MassNpart_All(hd) == [t \in Types |-> hd[F_npart][t]]

\* line 81: mass_npart = [0 if m else n for m, n in zip(header.mass, header.npart)]
MassNpart(hd) ==
    [t \in Types |-> IF hd[F_mass][t] # 0 THEN 0 ELSE hd[F_npart][t]]

\* lines 82-83: if single_type not in set(range(6)): single_type = -1
NormSingleType(st) == IF st \in 0..(NTypes - 1) THEN st ELSE -1

\* ------------------------------------------------------ one block (85-127)
\* mutant: the wide dtype tried first
ResolveItemSize_WideFirst(size_check, block_item_size) ==
    IF size_check = block_item_size * WideSize THEN WideSize
    ELSE IF size_check = block_item_size * NarrowSize THEN NarrowSize
    ELSE 0

\* lines 105-108: the element width that makes the declared length match,
\* the narrow dtype first; 0 stands for the ValueError of line 108
ResolveItemSize(size_check, block_item_size) ==
    IF size_check = block_item_size * NarrowSize THEN NarrowSize
    ELSE IF size_check = block_item_size * WideSize THEN WideSize
    ELSE 0

\* lines 91-92: item_per_part of block i
ItemPerPart(k) == IF k < 2 THEN 3 ELSE 1

\* lines 89, 100: npart of block i
NpartOf(k, hd, mnp) == IF k = 3 THEN mnp ELSE hd[F_npart]

\* mutant: the selected type's own items sought over as well
SkipBefore_Incl(np, st, size_per_part) ==
    sum(Slice(np, 0, st + 1)) * size_per_part

\* line 115: bytes sought over before the selected type
SkipBefore(np, st, size_per_part) == sum(Slice(np, 0, st)) * size_per_part

\* mutant: the selected type's own items sought over again
SkipAfter_Incl(np, st, size_per_part) ==
    sum(Slice(np, st, NTypes)) * size_per_part

\* mutant: the types after the selected one forgotten
SkipAfter_None(np, st, size_per_part) == 0

\* line 126: bytes sought over after the selected type
SkipAfter(np, st, size_per_part) == sum(Slice(np, st + 1, NTypes)) * size_per_part

\* mutant: the walk never stops early
NoneLater_Never(b, k) == FALSE

\* line 123: no later block is requested
NoneLater(b, k) == ~any(Slice(b, k + 1, NKinds))

\* line 98: np.array([], fmt)
EmptyBlock == [kind |-> 3, first |-> -1, size |-> 0, itemsize |-> NarrowSize,
               shape |-> <<0>>]

Fail(f, p, e) == [f EXCEPT !.pc = "error", !.err = e, !.pos = p]

\* One pass of the loop of line 85 over the frame f, with request mask b,
\* selector st, header hd, mass_npart mnp, a stream of len bytes whose next
\* four bytes (if there) hold the value L.
BlockIterOp(f, b, st, hd, mnp, len, L) ==
    LET k == f.i
        item_per_part == ItemPerPart(k)
        npart == NpartOf(k, hd, mnp)
    IN
    IF k = 3 /\ sum(mnp) = 0
    THEN [f EXCEPT !.ret = Append(@, EmptyBlock), !.pc = "ret"]    \* 97-99
    ELSE
    LET got4 == ReadLen(f.pos, MarkerSize, len)                    \* 102
        p1 == f.pos + got4
    IN
    IF got4 < MarkerSize THEN Fail(f, p1, "struct.error")
    ELSE
    LET block_item_size == item_per_part * sum(npart)              \* 104
        itemsize == ResolveItemSize(L, block_item_size)            \* 105-108
        size_per_part == item_per_part * itemsize                  \* 109
        mark == [kind |-> k, at |-> f.pos, L |-> L, N |-> sum(npart),
                 c |-> item_per_part, itemsize |-> itemsize, after |-> p1]
        seen == [f EXCEPT !.fileL = Append(@, L)]
        next == IF k + 1 < NKinds THEN "loop" ELSE "ret"
    IN
    IF itemsize = 0
    THEN [Fail(seen, p1, "Invalid block size in file!")
            EXCEPT !.marks = Append(@, mark)]
    ELSE IF ~b[k + 1]
    THEN LET p5 == Seek(Seek(p1, sum(npart) * size_per_part), MarkerSize)  \* 112, 127
         IN  [seen EXCEPT !.pos = p5, !.i = k + 1, !.pc = next,
                          !.marks = Append(@, [mark EXCEPT !.after = p5])]
    ELSE
    LET p2 == IF st > -1 THEN Seek(p1, SkipBefore(npart, st, size_per_part))
              ELSE p1                                              \* 114-115
        npart_this == IF st > -1 THEN npart[st + 1] ELSE sum(npart) \* 116-118
        gotd == ReadLen(p2, npart_this * size_per_part, len)       \* 119
        p3 == p2 + gotd
        n == gotd \div itemsize
        data == [kind |-> k, first |-> p2, size |-> n, itemsize |-> itemsize,
                 shape |-> IF item_per_part > 1
                           THEN <<npart_this, item_per_part>> ELSE <<n>>]
        p4 == IF st > -1 THEN Seek(p3, SkipAfter(npart, st, size_per_part))
              ELSE p3                                              \* 125-126
        p5 == Seek(p4, MarkerSize)                                 \* 127
    IN
    IF gotd % itemsize # 0                                         \* np.frombuffer
    THEN [Fail(seen, p3, "buffer size must be a multiple of element size")
            EXCEPT !.marks = Append(@, [mark EXCEPT !.after = p3])]
    ELSE IF item_per_part > 1 /\ n # npart_this * item_per_part    \* 120-121
    THEN [Fail(seen, p3, "cannot reshape array")
            EXCEPT !.marks = Append(@, [mark EXCEPT !.after = p3])]
    ELSE IF NoneLater(b, k)                                        \* 123-124
    THEN [seen EXCEPT !.ret = Append(@, data), !.pos = p3, !.pc = "ret",
                      !.marks = Append(@, [mark EXCEPT !.after = p3])]
    ELSE [seen EXCEPT !.ret = Append(@, data), !.pos = p5, !.i = k + 1,
                      !.pc = next,
                      !.marks = Append(@, [mark EXCEPT !.after = p5])]

\* ------------------------------------------------------------- the stream
\* the value packed at word k (1-based) of the header record of a file
\* written for counts np and masses ms, scalar filling v
FileWord(k, np, ms, v) ==
    IF k <= NTypes THEN np[k]
    ELSE IF k <= 2 * NTypes THEN ms[k - NTypes]
    ELSE 100 * (v + 1) + k

\* the 37 values struct.unpack finds in the header record
words == [k \in 1..NWords |-> FileWord(k, fileNpart, fileMass, fileFill)]

\* number of items the file holds in its record of kind k
FileCount(k) ==
    IF k = 3
    THEN sum([t \in Types |-> IF fileMass[t] = 0 THEN fileNpart[t] ELSE 0])
    ELSE sum(fileNpart)

\* offset of the record that follows the records read so far
NextRecordAt(ls) ==
    MarkerSize + HeaderRecord + MarkerSize +
    sum([j \in 1..Len(ls) |-> MarkerSize + ls[j] + MarkerSize])

\* what a marker read at the current offset may yield: at the start of the
\* record of kind k, a length the file declares for it (single or double
\* width, or one that fits neither); anywhere else, bytes that are no length
Garbage == 2^30 + 1
NextMarker ==
    IF pos = NextRecordAt(fileL) /\ Len(fileL) = i
          /\ ~(i = 3 /\ FileCount(3) = 0)
    THEN LET m == FileCount(i) * ItemPerPart(i)
         IN  {m * NarrowSize, m * WideSize, m * WideSize + MarkerSize}
    ELSE {Garbage}

\* ------------------------------------------------------------- the decoder
Frame == [pc |-> pc, pos |-> pos, ret |-> ret, i |-> i, err |-> err,
          marks |-> marks, fileL |-> fileL]

Inputs == <<blocks_to_read, single_type_arg, lgadget, fileNpart, fileMass,
            fileFill, streamLen>>

\* lines 58-72: skip the leading marker, unpack the header fields
ReadHeader ==
    /\ pc = "start"
    /\ LET p0 == Seek(pos, MarkerSize)                              \* 61
           got == ReadLen(p0, HeaderFmtSize, streamLen)             \* 63
       IN  /\ pos' = p0 + got
           /\ IF got < HeaderFmtSize
              THEN /\ pc' = "error"
                   /\ err' = "struct.error"
                   /\ UNCHANGED <<header, single_type>>
              ELSE /\ pc' = "header"
                   /\ header' = MakeHeader(IF lgadget THEN LgadgetRemap(words)
                                           ELSE words)
                   /\ single_type' = IF lgadget THEN 1 ELSE single_type_arg  \* 68
                   /\ err' = err
    /\ UNCHANGED <<Inputs, fileL, ret, mass_npart, i, retval, marks>>

\* lines 75-76: nothing requested
ReturnHeader ==
    /\ pc = "header"
    /\ ~any(blocks_to_read)
    /\ retval' = header
    /\ pc' = "done"
    /\ UNCHANGED <<Inputs, fileL, pos, header, ret, single_type, mass_npart,
                   i, err, marks>>

\* mutant: the padding of the header record forgotten
SkipHeaderRest_NoPad(p) == Seek(p, MarkerSize)

\* lines 78-79: from the end of the unpacked fields, over the padding of the
\* header record and its trailing marker
SkipHeaderRest(p) == Seek(Seek(p, HeaderRecord - HeaderFmtSize), MarkerSize)

\* lines 77-83: skip the rest of the header record, set up the loop
EnterLoop ==
    /\ pc = "header"
    /\ any(blocks_to_read)
    /\ ret' = Append(ret, header)                                   \* 77
    /\ pos' = SkipHeaderRest(pos)                                   \* 78-79
    /\ mass_npart' = MassNpart(header)                              \* 81
    /\ single_type' = NormSingleType(single_type)                   \* 82-83
    /\ i' = 0
    /\ pc' = "loop"
    /\ UNCHANGED <<Inputs, fileL, header, retval, err, marks>>

\* lines 85-129: one pass of the loop; when the loop ends (break, or the
\* fourth block done) the function returns tuple(ret)
BlockIter ==
    /\ pc = "loop"
    /\ \E L \in NextMarker :
         LET f == BlockIterOp(Frame, blocks_to_read, single_type, header,
                              mass_npart, streamLen, L)
         IN  /\ pc' = IF f.pc = "ret" THEN "done" ELSE f.pc
             /\ retval' = IF f.pc = "ret" THEN f.ret ELSE retval    \* 129
             /\ pos' = f.pos
             /\ ret' = f.ret
             /\ i' = f.i
             /\ err' = f.err
             /\ marks' = f.marks
             /\ fileL' = f.fileL
    /\ UNCHANGED <<Inputs, header, single_type, mass_npart>>

Next == ReadHeader \/ ReturnHeader \/ EnterLoop \/ BlockIter

\* ----------------------------------------------------------------- inputs
\* the types that hold particles in the files considered (gas, halo, disk)
Populated == {1, 2, 3}

\* particle counts of a header
Counts == {np \in [Types -> 0..MaxTotal] :
             /\ sum(np) <= MaxTotal
             /\ \A t \in Types \ Populated : np[t] = 0}

\* per-type masses of a header: no type has a fixed mass, the first has, the
\* second has, all have
Masses == {[t \in Types |-> IF t \in S THEN 1 ELSE 0] :
             S \in {{}, {1}, {2}, Types}}

Requests == [1..NKinds -> BOOLEAN]

\* single_type as callers pass it: the default, a type, a value out of range
SingleTypes == -1..NTypes

InitWith(reqs, sels, lgs, nps, mss, vs, lens) ==
    /\ blocks_to_read \in reqs
    /\ lgadget \in lgs
    /\ single_type_arg \in sels
    /\ fileNpart \in nps
    /\ fileMass \in mss
    /\ fileFill \in vs
    /\ streamLen \in lens
    /\ fileL = <<>>
    /\ pc = "start"
    /\ pos = 0
    /\ header = <<>>
    /\ ret = <<>>
    /\ single_type = single_type_arg
    /\ mass_npart = <<>>
    /\ i = 0
    /\ retval = <<>>
    /\ err = ""
    /\ marks = <<>>

\* complete files, every request set and selector
Init ==
    /\ InitWith(Requests, SingleTypes, BOOLEAN, Counts, Masses, {0}, {-1})
    /\ lgadget => single_type_arg = -1

Spec == Init /\ [][Next]_vars

\* files with differently filled headers, read with and without lgadget
InitHdr ==
    InitWith({<<FALSE, FALSE, FALSE, FALSE>>, <<TRUE, FALSE, FALSE, TRUE>>},
             {-1}, BOOLEAN, Counts, Masses, 0..MaxHdrVariant, {-1})

SpecHdr == InitHdr /\ [][Next]_vars

\* streams that end early: inside the header record, or up to MaxCut bytes
\* after it
HeaderEnd == MarkerSize + HeaderRecord + MarkerSize
Cuts == {MarkerSize + HeaderFmtSize - 1, MarkerSize + HeaderFmtSize}
          \cup {HeaderEnd + c : c \in 0..MaxCut}

InitTrunc ==
    InitWith(Requests, {-1, 1}, {FALSE},
             {np \in Counts : np[3] = 0},
             {[t \in Types |-> 0], [t \in Types |-> 1]}, {0}, Cuts)

SpecTrunc == InitTrunc /\ [][Next]_vars

\* ================================================================ claims
\* the kinds the caller requested, and the last of them
ReqKinds == {k \in Kinds : blocks_to_read[k + 1]}
LastReq == CHOOSE k \in ReqKinds : \A j \in ReqKinds : j <= k

\* the selector in effect: 1 under lgadget, else the caller's when in 0..5
EffSel == IF lgadget THEN 1
          ELSE IF single_type_arg \in 0..(NTypes - 1) THEN single_type_arg
          ELSE -1

\* per-type item counts of the file's record of kind k
FileCounts(k) ==
    IF k = 3 THEN [t \in Types |-> IF fileMass[t] = 0 THEN fileNpart[t] ELSE 0]
    ELSE fileNpart

\* components per item of kind k
Comps(k) == IF k \in {0, 1} THEN 3 ELSE 1

\* first and one-past-last item index the selector keeps of kind k
SelLo(k) == IF EffSel = -1 THEN 0 ELSE sum(SubSeq(FileCounts(k), 1, EffSel))
SelHi(k) == IF EffSel = -1 THEN sum(FileCounts(k))
            ELSE sum(SubSeq(FileCounts(k), 1, EffSel + 1))

\* offset of the file's record of kind k, once the decode has come to it
RecordAt(k) == NextRecordAt(SubSeq(fileL, 1, k))

\* position of kind k's block in the returned tuple (1-based)
RetIndex(k) == 1 + Cardinality({j \in ReqKinds : j <= k})

\* the declared length L fits a width for N items of c components
ValidLen(L, N, c) == L = N * c * 4 \/ L = N * c * 8

\* the loop run from its start with request mask b and selector st over the
\* records read so far (ls); beyond them the stream is unknown
RECURSIVE RunLoop(_, _, _, _)
RunLoop(f, b, st, ls) ==
    IF f.pc # "loop" THEN f
    ELSE RunLoop(BlockIterOp(f, b, st, header, mass_npart, streamLen,
                             IF f.i < Len(ls) THEN ls[f.i + 1] ELSE Garbage),
                 b, st, ls)

AltRun(b, st) ==
    RunLoop([pc |-> "loop", pos |-> SkipHeaderRest(MarkerSize + HeaderFmtSize),
             ret |-> <<header>>, i |-> 0, err |-> "", marks |-> <<>>,
             fileL |-> <<>>], b, st, fileL)

\* final stream offset of a decode of the same stream with request mask b
FinalPos(b) == IF any(b) THEN AltRun(b, single_type).pos
               ELSE MarkerSize + HeaderFmtSize

\* ---------------------------------------------------------------------
\* C1: on a complete stream with valid lengths a decode with a non-empty
\* request set returns 1 + |R| elements, the header first, then one block
\* per requested kind in the order position, velocity, identifier, mass;
\* each block is the items [SelLo, SelHi) of its record's payload (all of
\* them without a selector); a decode fails only at a record whose declared
\* length fits neither width.
C1_ResultTuple ==
    /\ (pc = "error" =>
          /\ marks # <<>>
          /\ LET m == marks[Len(marks)]
             IN  /\ m.at = RecordAt(m.kind)
                 /\ ~ValidLen(m.L, FileCount(m.kind), Comps(m.kind)))
    /\ (pc = "done" /\ any(blocks_to_read)) =>
          /\ Len(retval) = 1 + Cardinality(ReqKinds)
          /\ retval[1] = header
          /\ header = MakeHeader(IF lgadget THEN LgadgetRemap(words) ELSE words)
          /\ \A k \in ReqKinds :
               LET blk == retval[RetIndex(k)]
                   c == Comps(k)
                   n == SelHi(k) - SelLo(k)
               IN  /\ blk.kind = k
                   /\ blk.size = n * c
                   /\ blk.shape = IF c = 3 THEN <<n, 3>> ELSE <<n>>
                   /\ FileCount(k) > 0 =>
                        /\ blk.itemsize * FileCount(k) * c = fileL[k + 1]
                        /\ blk.first = RecordAt(k) + 4 + SelLo(k) * c * blk.itemsize

\* a decode under a selector returned, between two other blocks, the items
\* of one type that has items before and after it in the record
C1_Witness ==
    /\ pc = "done"
    /\ blocks_to_read = <<TRUE, FALSE, TRUE, TRUE>>
    /\ EffSel = 1
    /\ fileNpart[1] > 0 /\ fileNpart[2] > 0
    /\ Len(retval) = 4
    /\ retval[3].size = fileNpart[2]
    /\ retval[3].first > RecordAt(2) + 4
    /\ retval[4].size > 0

\* ---------------------------------------------------------------------
\* C2: for every block whose leading marker is read, materialized or
\* skipped, with declared length L, N items and c components: the width is
\* 4 if L = N*c*4, otherwise 8 if L = N*c*8, otherwise the decode fails
\* with the invalid-block-size error and returns nothing.
C2_WidthResolution ==
    \A j \in 1..Len(marks) :
        LET m == marks[j]
            N == FileCount(m.kind)
            c == Comps(m.kind)
        IN  /\ m.N = N /\ m.c = c
            /\ IF m.L = N * c * 4 THEN m.itemsize = 4
               ELSE IF m.L = N * c * 8 THEN m.itemsize = 8
               ELSE /\ j = Len(marks)
                    /\ pc = "error"
                    /\ err = "Invalid block size in file!"
                    /\ retval = <<>>

\* a skipped double-width record, a materialized single-width one, then a
\* mass record (fewer items than the others) whose length fits neither width
C2_Witness ==
    /\ Len(marks) = 4
    /\ marks[1].itemsize = 8 /\ ~blocks_to_read[1]
    /\ marks[2].itemsize = 4 /\ blocks_to_read[2]
    /\ marks[4].N < marks[1].N
    /\ marks[4].itemsize = 0
    /\ pc = "error"

\* ---------------------------------------------------------------------
\* C4: whenever the decoder reads the leading marker of its j-th block the
\* stream offset is 264 plus (4 + L + 4) for every earlier block, whether
\* those were materialized or skipped, with or without a selector.
C4_MarkerOffsets ==
    \A j \in 1..Len(marks) :
        /\ marks[j].kind = j - 1
        /\ marks[j].at =
             264 + sum([q \in 1..(j - 1) |-> 4 + marks[q].L + 4])

\* a selector with items on both sides of the selected type; a materialized
\* block, a skipped one, and the marker of the block after them read
C4_Witness ==
    /\ Len(marks) >= 3
    /\ blocks_to_read[1] /\ ~blocks_to_read[2]
    /\ single_type = 1
    /\ fileNpart[1] > 0 /\ fileNpart[3] > 0
    /\ marks[1].L # marks[2].L
    /\ marks[3].at > 264 + 16

\* ---------------------------------------------------------------------
\* C5 as stated: materializing a block under a selector leaves the stream
\* where materializing it without a selector does, for every requested
\* kind, the last requested one included.
C5_Original ==
    LET plain == AltRun(blocks_to_read, -1).marks
    IN  \A j \in 1..Len(marks) :
            (blocks_to_read[j] /\ marks[j].itemsize # 0) =>
                marks[j].after = plain[j].after

\* bytes of the items of the types after the selected one, in block j
TailBytes(j) ==
    IF single_type = -1 THEN 0
    ELSE sum(SubSeq(FileCounts(j - 1), single_type + 2, NTypes))
           * marks[j].c * marks[j].itemsize

\* C5 amended: that holds for every requested kind followed by a later
\* requested kind; after the last requested kind the stream is left at the
\* end of the selected type's items, short of the no-selector offset by the
\* bytes of the later types' items.
C5_SelectorOffsets ==
    LET plain == AltRun(blocks_to_read, -1).marks
    IN  \A j \in 1..Len(marks) :
            (blocks_to_read[j] /\ marks[j].itemsize # 0) =>
                IF \E q \in (j + 1)..NKinds : blocks_to_read[q]
                THEN marks[j].after = plain[j].after
                ELSE marks[j].after + TailBytes(j) = plain[j].after

\* under a selector with items after the selected type: a block that is not
\* the last requested was materialized, and the last requested one too
C5_Witness ==
    /\ pc = "done"
    /\ single_type = 0
    /\ fileNpart[1] > 0 /\ fileNpart[2] > 0
    /\ blocks_to_read = <<TRUE, FALSE, TRUE, FALSE>>
    /\ TailBytes(3) > 0

\* ---------------------------------------------------------------------
\* C6: with last requested kind k the decoder processes no kind after k,
\* reads no marker after k's, and never moves the stream beyond the end of
\* the last record whose marker it has read; the mass step is reached only
\* when mass is requested.
C6_EarlyStop ==
    any(blocks_to_read) =>
        /\ i <= LastReq
        /\ Len(marks) <= LastReq + 1
        /\ pos <= 264 + sum([q \in 1..Len(marks) |-> 4 + marks[q].L + 4])
        /\ \A q \in 1..Len(marks) : marks[q].kind <= LastReq
        /\ (pc = "loop" /\ i = 3) => blocks_to_read[4]

\* identifiers were the last kind requested and the file has a mass record:
\* the decode returned with the stream inside the identifier record
C6_Witness ==
    /\ pc = "done"
    /\ blocks_to_read = <<FALSE, TRUE, TRUE, FALSE>>
    /\ FileCount(3) > 0
    /\ Len(marks) = 3
    /\ pos < marks[3].at + 8 + marks[3].L
    /\ pos > marks[3].at + 4

\* ---------------------------------------------------------------------
AllFixed == \A t \in Types : fileMass[t] # 0
WithoutMass == [blocks_to_read EXCEPT ![4] = FALSE]

\* C7 as stated: with all six masses nonzero, a decode of R plus mass
\* yields the blocks of a decode of R followed by one empty mass block, and
\* ends at the stream offset at which the decode of R alone ends.
C7_Original ==
    (pc = "done" /\ AllFixed /\ blocks_to_read[4]) =>
        /\ retval = IF any(WithoutMass)
                    THEN Append(AltRun(WithoutMass, single_type).ret, EmptyBlock)
                    ELSE <<header, EmptyBlock>>
        /\ pos = FinalPos(WithoutMass)

\* C7 amended: the blocks are as stated and the mass step itself reads
\* nothing (no fourth marker), but the decode walks over the whole position,
\* velocity and identifier records to reach it: it ends right after the
\* identifier record's trailing marker, beyond where the decode of R alone
\* ends.
C7_MassEmpty ==
    (AllFixed /\ blocks_to_read[4]) =>
        /\ Len(marks) <= 3
        /\ pc = "done" =>
             /\ retval = IF any(WithoutMass)
                         THEN Append(AltRun(WithoutMass, single_type).ret,
                                     EmptyBlock)
                         ELSE <<header, EmptyBlock>>
             /\ retval[Len(retval)].size = 0
             /\ Len(marks) = 3
             /\ pos = marks[3].at + 4 + marks[3].L + 4
             /\ pos > FinalPos(WithoutMass)

\* all masses fixed, particles present, mass requested after identifiers
C7_Witness ==
    /\ pc = "done"
    /\ AllFixed
    /\ blocks_to_read = <<FALSE, FALSE, TRUE, TRUE>>
    /\ sum(fileNpart) > 0
    /\ Len(retval) = 3
    /\ retval[2].size > 0

\* ---------------------------------------------------------------------
\* C8: with an empty request set the result is the one-element sequence
\* (Header,): of length 1, its first element the whole header.
C8_HeaderTuple ==
    (pc = "done" /\ ~any(blocks_to_read)) =>
        /\ Len(retval) = 1
        /\ retval[1] = header

\* ---------------------------------------------------------------------
\* C9 as stated: for every request set, the empty one included, the header
\* decode leaves the stream 264 bytes on, after the header record's
\* trailing marker.
C9_Original ==
    /\ (pc = "loop" /\ i = 0) => pos = 264
    /\ (pc = "done" /\ ~any(blocks_to_read)) => pos = 264

\* C9 amended: that holds for every non-empty request set, before any block
\* is touched; with the empty request set the decode returns right after
\* the 196 bytes of fields, at offset 200, the padding and the trailing
\* marker unread.
C9_HeaderAdvance ==
    /\ (pc = "loop" /\ i = 0) => pos = 264
    /\ marks # <<>> => marks[1].at = 264
    /\ (pc = "done" /\ ~any(blocks_to_read)) => pos = 200

\* a decode has gone over the header record and read the first marker there
C9_Witness ==
    /\ marks # <<>>
    /\ marks[1].at = 264
    /\ pc = "loop"

\* ---------------------------------------------------------------------
\* the header a decode without lgadget makes of the same bytes
Plain == MakeHeader(words)

\* C10 as stated: under lgadget flag_entr_ics is 0, NallHW is populated from
\* the plain flag_cooling, flag_cooling is 0, every other field unchanged.
C10_Original ==
    (lgadget /\ header # <<>>) =>
        /\ header[F_flag_entr_ics] = 0
        /\ header[F_flag_cooling] = 0
        /\ \E t \in Types : header[F_NallHW][t] = Plain[F_flag_cooling]
        /\ \A x \in 1..NFields :
             x \notin {F_flag_entr_ics, F_flag_cooling, F_NallHW} =>
                 header[x] = Plain[x]

\* C10 amended: under lgadget NallHW[0] is 0, NallHW[1] is the plain
\* npartTotal[2], npartTotal[2] is 0; every other field, flag_entr_ics and
\* flag_cooling included, is unchanged.
C10_LgadgetHeader ==
    (lgadget /\ header # <<>>) =>
        /\ header[F_NallHW] = <<0, Plain[F_npartTotal][3]>>
                                \o SubSeq(Plain[F_NallHW], 3, NTypes)
        /\ header[F_npartTotal] = [Plain[F_npartTotal] EXCEPT ![3] = 0]
        /\ \A x \in 1..NFields :
             x \notin {F_NallHW, F_npartTotal} => header[x] = Plain[x]

\* a header decoded under lgadget from a file whose words are all nonzero
\* where the reinterpretation acts
C10_Witness ==
    /\ lgadget
    /\ header # <<>>
    /\ fileFill = MaxHdrVariant
    /\ Plain[F_npartTotal][3] # 0
    /\ Plain[F_NallHW][1] # 0
    /\ header # Plain

\* ---------------------------------------------------------------------
\* C3: a decode of a stream that ends before the bytes of a read are there
\* fails: it never returns a block with fewer items than the header gives
\* its kind under the selector in effect.
C3_Truncation ==
    (pc = "done" /\ any(blocks_to_read)) =>
        \A k \in ReqKinds :
            retval[RetIndex(k)].size = (SelHi(k) - SelLo(k)) * Comps(k)

====
